---- MODULE Spec2Model ----
(***************************************************************************)
(* Model of mq.py: a message queue service over an SQLite database.        *)
(*                                                                         *)
(* The database (tables queues and messages) is the shared state.  Every   *)
(* DAO method opens connections of its own, so a request is a sequence of  *)
(* database steps, each atomic (one statement in autocommit mode, or the   *)
(* statements of one implicit transaction up to its commit), and the       *)
(* steps of different requests interleave:                                 *)
(*   push, get, count:  check_queue | the statement                        *)
(*   pop:               check_queue | GET_MESSAGES | DELETE_MESSAGES       *)
(*   create, delete, list: one step                                        *)
(* A request's arrival is taken together with its first database step.     *)
(*                                                                         *)
(* Spec      requests run concurrently                                     *)
(* SeqSpec   requests are served one at a time                             *)
(* PushSpec  only pushes and creates arrive, concurrently                  *)
(* StoreSpec only pushes, pops, creates and deletes arrive, concurrently   *)
(* ArgSpec   pops and peeks arrive with any query string, one at a time    *)
(* LiveSpec  requests run concurrently, scheduled fairly, no restart       *)
(*                                                                         *)
(* Variables and fields whose comment says "history" are not program       *)
(* state: they record what happened so that the properties can be stated.  *)
(***************************************************************************)
EXTENDS Integers, Sequences, FiniteSets, TLC

\* ------------------------------------------------------------- bounds

\* Successful pushes in one behaviour.
MaxPushes == 3
\* Successful pushes in one behaviour in which requests run concurrently.
MaxRace == 2
\* Successful pushes in one behaviour of the specification with fairness.
MaxLive == 1
\* Largest queues.id a create may assign.
MaxQueueId == 2
\* Largest n a request asks for (n ranges over 0..MaxN; where the checks
\* of n are exercised, the maximum and the number after it come on top).
MaxN == 2

\* ------------------------------------------------------------- inputs

Procs == {"r1", "r2"}

\* Queue names, in ascending order of the names.
NameOrder == <<"a", "default">>
QNames == {NameOrder[i] : i \in 1..Len(NameOrder)}

NValues == 0..MaxN

\* maximum number of messages user may request for
MAX_MESSAGES_REQUEST_NUMBER == 100

\* Texts are sequences of characters.
DigitChars == <<"0", "1", "2", "3", "4", "5", "6", "7", "8", "9">>

RECURSIVE Decimal(_)
\* The decimal text of a natural number.
Decimal(k) ==
    IF k < 10 THEN <<DigitChars[k + 1]>>
    ELSE Decimal(k \div 10) \o <<DigitChars[(k % 10) + 1]>>

\* Texts given as the query parameter n: the numbers of NValues, the
\* maximum and the number after it, a number with a zero in front, and
\* texts that are no non-negative integer.
NTexts ==
    {Decimal(k) : k \in NValues \cup {MAX_MESSAGES_REQUEST_NUMBER,
                                      MAX_MESSAGES_REQUEST_NUMBER + 1}}
    \cup {<<"0", "1">>, <<"-", "1">>, <<"1", ".", "5">>, <<"x">>, << >>}

\* The query string of a pop or get request: without n, or with one n.
QueryArgs == {<< >>} \cup {<<t>> : t \in NTexts}

\* JSON values of request bodies.
JNull == [t |-> "null"]
JStr(s) == [t |-> "str", v |-> s]
JObj(k, s) == [t |-> "obj", k |-> k, v |-> s]
Payloads == {JNull, JStr("A"), JObj("item", "A")}

\* ------------------------------------------------------------- JSON text

\* json.dumps: the text of a value, as a sequence of tokens.
Dumps(v) ==
    IF v.t = "null" THEN <<"null">>
    ELSE IF v.t = "str" THEN <<"\"", v.v, "\"">>
    ELSE <<"{", "\"", v.k, "\"", ":", "\"", v.v, "\"", "}">>

\* Loads as a parser that reads every text but null as a string.
LoadsAsText(s) == IF s[1] = "null" THEN JNull ELSE JStr(s[2])

\* json.loads: the value of a text.
Loads(s) ==
    IF s[1] = "null" THEN JNull
    ELSE IF s[1] = "\"" THEN JStr(s[2])
    ELSE JObj(s[3], s[7])

\* ------------------------------------------------------------- state

VARIABLES
    tables,     \* names of the tables that exist in mq.db
    queues,     \* rows of table queues: [id, name]
    messages,   \* rows of table messages: [id, queue_id, message], and as
                \* history seq (the number of the push that inserted the
                \* row), sent (the payload given to that push) and rid (the
                \* id that push returned)
    calls,      \* the request each execution context is serving
    npushed,    \* history: number of successful pushes
    lastid,     \* history: the id the latest successful push returned
    delivered,  \* history: how many pop calls returned push number s
    fifo,       \* history: per queue, the push numbers of the messages
                \* pushed to it and not yet returned by a pop, oldest first
    balance     \* history: per queue, pushes minus messages returned by
                \* pop, since its creation

vars == <<tables, queues, messages, calls, npushed, lastid, delivered, fifo, balance>>

db == <<tables, queues, messages>>
history == <<npushed, lastid, delivered, fifo, balance>>

\* ------------------------------------------------------------- SQL

Max(S) == CHOOSE x \in S : \A y \in S : y <= x

\* The rowid SQLite gives a row inserted into a table with an
\* "integer primary key" column and no AUTOINCREMENT: one more than the
\* largest rowid now in the table.
NewRowId(rows) == IF rows = {} THEN 1 ELSE Max({r.id : r \in rows}) + 1

\* (select id from queues where name = ?): the ids found, none or one.
QueueIds(qs, name) == {q.id : q \in {r \in qs : r.name = name}}

\* CHECK_QUEUE_EXISTS ... fetchall() is not empty.
QueueExists(qs, name) == {r \in qs : r.name = name} # {}

\* Rows of the messages table of the queue called name.
QueueRows(ms, qs, name) == {r \in ms : r.queue_id \in QueueIds(qs, name)}

RECURSIVE OrderByIdDesc(_)
\* OrderById with "order by id desc": the newest row first.
OrderByIdDesc(rows) ==
    IF rows = {} THEN << >>
    ELSE LET r == CHOOSE x \in rows : \A y \in rows : x.id >= y.id
         IN <<r>> \o OrderByIdDesc(rows \ {r})

RECURSIVE OrderById(_)
\* order by id asc
OrderById(rows) ==
    IF rows = {} THEN << >>
    ELSE LET r == CHOOSE x \in rows : \A y \in rows : x.id <= y.id
         IN <<r>> \o OrderById(rows \ {r})

\* Limit with the limit dropped from the statement.
LimitNone(s, k) == s

\* limit ?: a negative limit is no limit.
Limit(s, k) == IF k < 0 \/ k >= Len(s) THEN s ELSE SubSeq(s, 1, k)

\* GET_MESSAGES
GetMessages(ms, qs, name, k) == Limit(OrderById(QueueRows(ms, qs, name)), k)

\* CountMessages with the where clause dropped: the rows of all queues.
CountAll(ms, qs, name) == Cardinality(ms)

\* COUNT_MESSAGES
CountMessages(ms, qs, name) == Cardinality(QueueRows(ms, qs, name))

\* CreateQueue as "insert or replace": an existing queue gets a new row.
CreateQueueReplace(qs, name) ==
    {r \in qs : r.name # name} \cup {[id |-> NewRowId(qs), name |-> name]}

\* CREATE_QUEUE, with the IntegrityError of the unique name ignored.
CreateQueue(qs, name) ==
    IF QueueExists(qs, name) THEN qs
    ELSE qs \cup {[id |-> NewRowId(qs), name |-> name]}

\* DeleteQueueMessages that deletes no row.
DeleteQueueMessagesNone(ms, qs, name) == ms

\* DELETE_QUEUE_MESSAGES
DeleteQueueMessages(ms, qs, name) == ms \ QueueRows(ms, qs, name)

\* DELETE_QUEUE
DeleteQueue(qs, name) == {r \in qs : r.name # name}

\* DELETE_MESSAGES (...ids...)
DeleteMessages(ms, idlist) ==
    {r \in ms : \A i \in 1..Len(idlist) : r.id # idlist[i]}

RECURSIVE OrderByNameDesc(_)
\* OrderByName with "order by name desc".
OrderByNameDesc(names) ==
    IF names = {} THEN << >>
    ELSE LET i == CHOOSE j \in 1..Len(NameOrder) :
                     /\ NameOrder[j] \in names
                     /\ \A k \in 1..Len(NameOrder) : NameOrder[k] \in names => j >= k
         IN <<NameOrder[i]>> \o OrderByNameDesc(names \ {NameOrder[i]})

RECURSIVE OrderByName(_)
\* LIST_QUEUES: order by name asc
OrderByName(names) ==
    IF names = {} THEN << >>
    ELSE LET i == CHOOSE j \in 1..Len(NameOrder) :
                     /\ NameOrder[j] \in names
                     /\ \A k \in 1..Len(NameOrder) : NameOrder[k] \in names => j <= k
         IN <<NameOrder[i]>> \o OrderByName(names \ {NameOrder[i]})

\* ------------------------------------------------------------- init_db

InitDbTables(ts) == ts \cup {"queues", "messages"}

InitDbQueues(ts, qs) ==
    IF "queues" \notin ts THEN {[id |-> 1, name |-> "default"]} ELSE qs

\* ------------------------------------------------------------- requests

NoArg == JNull

\* An execution context: the request it serves (op, qname, n, message), the
\* locals of the DAO method (ids, messages), the place it has reached (pc)
\* and, once pc is "done", the response (error, messages, message_id,
\* count, names).  since and existed are history: the number of pushes
\* completed when the request arrived, and whether the queue existed when
\* the request acted on it (the step after check_queue, or the failed
\* check_queue).
Idle ==
    [pc |-> "idle", op |-> "none", qname |-> "default", n |-> 0,
     message |-> NoArg, ids |-> << >>, messages |-> << >>,
     error |-> "none", message_id |-> 0, count |-> 0, names |-> << >>,
     since |-> 0, existed |-> TRUE]

InFlight(p) == calls[p].pc \in {"act", "delete"}

\* No response is being handed to a client.  Handing over touches nothing
\* shared, so it is taken before any other request moves on.
Quiet == \A p \in Procs : calls[p].pc # "done"

Free(p) == Quiet /\ calls[p].pc = "idle"

\* The request c, with the existence of its queue noted.
Saw(c) == [c EXCEPT !.existed = QueueExists(queues, c.qname)]

\* The request of context p ends with response r.
Respond(p, r) == calls' = [calls EXCEPT ![p] = [r EXCEPT !.pc = "done"]]

Request(o, q, k, m) ==
    [Idle EXCEPT !.op = o, !.qname = q, !.n = k, !.message = m,
                 !.since = IF o = "push" THEN npushed ELSE 0]

Init ==
    /\ tables = InitDbTables({})
    /\ queues = InitDbQueues({}, {})
    /\ messages = {}
    /\ calls = [p \in Procs |-> Idle]
    /\ npushed = 0
    /\ lastid = 0
    /\ delivered = [s \in 1..MaxPushes |-> 0]
    /\ fifo = [q \in QNames |-> << >>]
    /\ balance = [q \in QNames |-> 0]

\* ------------------------------------------------------------- handlers

\* Pushes that may still insert a row.
PushesInFlight == Cardinality({p \in Procs : InFlight(p) /\ calls[p].op = "push"})

\* CheckQueue that raises nothing.
CheckQueueNoRaise(p, c) ==
    /\ calls' = [calls EXCEPT ![p] = [c EXCEPT !.pc = "act"]]
    /\ UNCHANGED <<db, history>>

\* check_queue, at the start of push, pop, get and count.
CheckQueue(p, c) ==
    /\ IF QueueExists(queues, c.qname)
       THEN calls' = [calls EXCEPT ![p] = [c EXCEPT !.pc = "act"]]
       ELSE Respond(p, [Saw(c) EXCEPT !.error = "No such queue"])
    /\ UNCHANGED <<db, history>>

\* mq_push up to the end of check_queue.  A body that is None is refused
\* before the DAO is called.
PushReq(p) ==
    \E q \in QNames, m \in Payloads :
        /\ Free(p)
        /\ npushed + PushesInFlight < MaxPushes
        /\ IF m = JNull
           THEN /\ Respond(p, [Saw(Request("push", q, 0, m)) EXCEPT
                                   !.error = "Not a JSON value"])
                /\ UNCHANGED <<db, history>>
           ELSE CheckQueue(p, Request("push", q, 0, m))

\* flask.request.args.get("n", "1")
ArgsGet(args, default) == IF args = << >> THEN default ELSE args[1]

\* str.isdigit: not empty, and every character a digit.
IsDigit(t) ==
    /\ Len(t) > 0
    /\ \A i \in 1..Len(t) : \E d \in 1..Len(DigitChars) : DigitChars[d] = t[i]

DigitValue(ch) == (CHOOSE d \in 1..Len(DigitChars) : DigitChars[d] = ch) - 1

RECURSIVE ToInt(_)
\* int(n) of a text of digits
ToInt(t) ==
    IF t = << >> THEN 0
    ELSE ToInt(SubSeq(t, 1, Len(t) - 1)) * 10 + DigitValue(t[Len(t)])

\* CheckN without the comparison with the maximum.
CheckNNoMax(args) ==
    IF IsDigit(ArgsGet(args, <<"1">>)) THEN "none" ELSE "n must be an integer number"

\* The checks of n in mq_pop and mq_get: the message of the exception
\* raised, "none" when n passes.
CheckN(args) ==
    LET n == ArgsGet(args, <<"1">>)
    IN IF ~IsDigit(n) THEN "n must be an integer number"
       ELSE IF ToInt(n) < 0 THEN "n must be positive"
       ELSE IF ToInt(n) > MAX_MESSAGES_REQUEST_NUMBER THEN "n must be at most 100"
       ELSE "none"

\* mq_pop and mq_get (op is "pop" or "get") with the query string args, up
\* to the end of check_queue.  An n that fails the checks is refused before
\* the DAO is called.
MqRead(p, op, q, args) ==
    /\ Free(p)
    /\ IF CheckN(args) # "none"
       THEN /\ Respond(p, [Request(op, q, 0, NoArg) EXCEPT !.error = CheckN(args)])
            /\ UNCHANGED <<db, history>>
       ELSE CheckQueue(p, Request(op, q, ToInt(ArgsGet(args, <<"1">>)), NoArg))

\* Query strings that give n as a number of NValues.
NumberArgs == {<<Decimal(k)>> : k \in NValues}

\* mq_pop up to the end of check_queue, n a number of NValues
PopReq(p) == \E q \in QNames, args \in NumberArgs : MqRead(p, "pop", q, args)

\* mq_get up to the end of check_queue, n a number of NValues
GetReq(p) == \E q \in QNames, args \in NumberArgs : MqRead(p, "get", q, args)

\* mq_pop up to the end of check_queue, with any query string
MqPop(p) == \E q \in QNames, args \in QueryArgs : MqRead(p, "pop", q, args)

\* mq_get up to the end of check_queue, with any query string
MqGet(p) == \E q \in QNames, args \in QueryArgs : MqRead(p, "get", q, args)

\* mq_count up to the end of check_queue
CountReq(p) ==
    \E q \in QNames : Free(p) /\ CheckQueue(p, Request("count", q, 0, NoArg))

\* LastRowId read before the insert: the largest rowid in the table.
LastRowIdStale(ms) == NewRowId(ms) - 1

\* cur.lastrowid after PUSH_MESSAGE on a fresh connection: the rowid of
\* the row the statement inserts.
LastRowId(ms) == NewRowId(ms)

\* PushMessage with ids counted per queue: one more than the largest id
\* among the rows of the queue.
PushMessagePerQueue(ms, qs, name, text, seq, sent, rid) ==
    ms \cup {[id |-> NewRowId(QueueRows(ms, qs, name)), queue_id |-> qid,
              message |-> text, seq |-> seq, sent |-> sent, rid |-> rid] :
                 qid \in QueueIds(qs, name)}

\* PUSH_MESSAGE: the table with the row inserted.
PushMessage(ms, qs, name, text, seq, sent, rid) ==
    ms \cup {[id |-> NewRowId(ms), queue_id |-> qid, message |-> text,
              seq |-> seq, sent |-> sent, rid |-> rid] : qid \in QueueIds(qs, name)}

\* Push with the column queue_id declared without "not null": with the
\* queue gone the row is inserted with a NULL (0) queue_id.
PushNullable(p) ==
    LET c == Saw(calls[p])
        seq == npushed + 1
        message_id == LastRowId(messages)
    IN /\ Quiet /\ c.pc = "act" /\ c.op = "push"
       /\ messages' = IF QueueIds(queues, c.qname) = {}
                      THEN messages \cup {[id |-> NewRowId(messages), queue_id |-> 0,
                                            message |-> Dumps(c.message), seq |-> seq,
                                            sent |-> c.message, rid |-> message_id]}
                      ELSE PushMessage(messages, queues, c.qname, Dumps(c.message),
                                       seq, c.message, message_id)
       /\ Respond(p, [c EXCEPT !.message_id = message_id])
       /\ npushed' = seq
       /\ lastid' = message_id
       /\ fifo' = [fifo EXCEPT ![c.qname] = Append(@, seq)]
       /\ balance' = [balance EXCEPT ![c.qname] = @ + 1]
       /\ UNCHANGED <<tables, queues, delivered>>

\* push, after check_queue: insert and commit.  With the queue gone the
\* subselect is NULL and the insert fails on "queue_id integer not null".
Push(p) ==
    LET c == Saw(calls[p])
        seq == npushed + 1
        message_id == LastRowId(messages)
    IN /\ Quiet /\ c.pc = "act" /\ c.op = "push"
       /\ IF QueueIds(queues, c.qname) = {}
          THEN /\ Respond(p, [c EXCEPT !.error = "IntegrityError"])
               /\ UNCHANGED <<db, history>>
          ELSE /\ messages' = PushMessage(messages, queues, c.qname, Dumps(c.message),
                                          seq, c.message, message_id)
               /\ Respond(p, [c EXCEPT !.message_id = message_id])
               /\ npushed' = seq
               /\ lastid' = message_id
               /\ fifo' = [fifo EXCEPT ![c.qname] = Append(@, seq)]
               /\ balance' = [balance EXCEPT ![c.qname] = @ + 1]
               /\ UNCHANGED <<tables, queues, delivered>>

\* The list of {"id", "message"} built from the rows of GET_MESSAGES
\* (seq, sent and rid are history).
Rows2Messages(rows) ==
    [i \in 1..Len(rows) |->
        [id |-> rows[i].id, message |-> Loads(rows[i].message),
         seq |-> rows[i].seq, sent |-> rows[i].sent, rid |-> rows[i].rid]]

Rows2Ids(rows) == [i \in 1..Len(rows) |-> rows[i].id]

\* PopSelect that waits for a message while the queue is empty.
PopSelectWait(p) ==
    LET c == Saw(calls[p])
        rows == GetMessages(messages, queues, c.qname, c.n)
    IN /\ Quiet /\ c.pc = "act" /\ c.op = "pop"
       /\ rows # << >>
       /\ calls' = [calls EXCEPT ![p] =
              [c EXCEPT !.pc = "delete", !.ids = Rows2Ids(rows),
                        !.messages = Rows2Messages(rows)]]
       /\ UNCHANGED <<db, history>>

\* pop, after check_queue: GET_MESSAGES and the loop over its rows.
PopSelect(p) ==
    LET c == Saw(calls[p])
        rows == GetMessages(messages, queues, c.qname, c.n)
    IN /\ Quiet /\ c.pc = "act" /\ c.op = "pop"
       /\ calls' = [calls EXCEPT ![p] =
              [c EXCEPT !.pc = "delete", !.ids = Rows2Ids(rows),
                        !.messages = Rows2Messages(rows)]]
       /\ UNCHANGED <<db, history>>

Seqs(msgs) == {msgs[i].seq : i \in 1..Len(msgs)}

\* The sequence s without the elements in S.
Without(s, S) == SelectSeq(s, LAMBDA x : x \notin S)

\* pop: "if ids:" DELETE_MESSAGES, commit, return messages.
PopDelete(p) ==
    LET c == calls[p]
    IN /\ Quiet /\ c.pc = "delete"
       /\ messages' = IF c.ids # << >> THEN DeleteMessages(messages, c.ids) ELSE messages
       /\ Respond(p, c)
       /\ delivered' = [s \in DOMAIN delivered |->
              IF s \in Seqs(c.messages) THEN delivered[s] + 1 ELSE delivered[s]]
       /\ fifo' = [fifo EXCEPT ![c.qname] = Without(@, Seqs(c.messages))]
       /\ balance' = [balance EXCEPT ![c.qname] = @ - Len(c.messages)]
       /\ UNCHANGED <<tables, queues, npushed, lastid>>

\* Get that deletes the rows it has read, as pop does.
GetRemoving(p) ==
    LET c == Saw(calls[p])
        rows == GetMessages(messages, queues, c.qname, c.n)
    IN /\ Quiet /\ c.pc = "act" /\ c.op = "get"
       /\ Respond(p, [c EXCEPT !.messages = Rows2Messages(rows)])
       /\ messages' = DeleteMessages(messages, Rows2Ids(rows))
       /\ UNCHANGED <<tables, queues, history>>

\* get, after check_queue
Get(p) ==
    LET c == Saw(calls[p])
        rows == GetMessages(messages, queues, c.qname, c.n)
    IN /\ Quiet /\ c.pc = "act" /\ c.op = "get"
       /\ Respond(p, [c EXCEPT !.messages = Rows2Messages(rows)])
       /\ UNCHANGED <<db, history>>

\* count, after check_queue
Count(p) ==
    LET c == Saw(calls[p])
    IN /\ Quiet /\ c.pc = "act" /\ c.op = "count"
       /\ Respond(p, [c EXCEPT !.count = CountMessages(messages, queues, c.qname)])
       /\ UNCHANGED <<db, history>>

\* mq_create: create
Create(p) ==
    \E q \in QNames :
        LET fresh == ~QueueExists(queues, q)
        IN /\ Free(p)
           /\ NewRowId(queues) <= MaxQueueId
           /\ queues' = CreateQueue(queues, q)
           /\ Respond(p, Saw(Request("create", q, 0, NoArg)))
           /\ fifo' = IF fresh THEN [fifo EXCEPT ![q] = << >>] ELSE fifo
           /\ balance' = IF fresh THEN [balance EXCEPT ![q] = 0] ELSE balance
           /\ UNCHANGED <<tables, messages, npushed, lastid, delivered>>

\* mq_delete: delete, both statements in one transaction.
Delete(p) ==
    \E q \in QNames :
        /\ Free(p)
        /\ messages' = DeleteQueueMessages(messages, queues, q)
        /\ queues' = DeleteQueue(queues, q)
        /\ Respond(p, Saw(Request("delete", q, 0, NoArg)))
        /\ fifo' = [fifo EXCEPT ![q] = << >>]
        /\ UNCHANGED <<tables, npushed, lastid, delivered, balance>>

\* mq_list: list
List(p) ==
    /\ Free(p)
    /\ Respond(p, [Request("list", "default", 0, NoArg) EXCEPT
                       !.names = OrderByName({r.name : r \in queues})])
    /\ UNCHANGED <<db, history>>

\* The class of the exception a request ended with.
ExceptionClass(c) ==
    CASE c.error = "No such queue" -> "ValueError"
      [] c.error = "Not a JSON value" -> "TypeError"
      [] c.error = "n must be an integer number" -> "TypeError"
      [] c.error = "n must be positive" ->
             IF c.op = "get" THEN "TypeError" ELSE "ValueError"
      [] c.error = "n must be at most 100" -> "ValueError"
      [] c.error = "IntegrityError" -> "sqlite3.IntegrityError"

\* The subclasses of werkzeug.exceptions.HTTPException, with their code.
HTTPExceptionCode ==
    [BadRequest |-> 400, NotFound |-> 404, MethodNotAllowed |-> 405]

\* handle_server_error, and the status of flask.jsonify without an
\* exception: the status code of the response to request c.
StatusCode(c) ==
    IF c.error = "none" THEN 200
    ELSE IF ExceptionClass(c) \in DOMAIN HTTPExceptionCode
         THEN HTTPExceptionCode[ExceptionClass(c)]
         ELSE 500

\* handle_server_error: the JSON object of the response to a request that
\* ended with an exception.
ErrorBody(c) == [error |-> c.error]

\* The response goes to the client; the context is free again.
Return(p) ==
    /\ calls[p].pc = "done"
    /\ calls' = [calls EXCEPT ![p] = Idle]
    /\ UNCHANGED <<db, history>>

\* The server process stops, with the requests it is serving, and starts
\* again: the module runs init_db on the database file it finds.
Restart ==
    /\ Quiet
    /\ \E p \in Procs : InFlight(p)
    /\ calls' = [p \in Procs |-> Idle]
    /\ tables' = InitDbTables(tables)
    /\ queues' = InitDbQueues(tables, queues)
    /\ UNCHANGED <<messages, history>>

\* A request other than a push arrives at context p.
Arrive(p) ==
    \/ CountReq(p) \/ GetReq(p) \/ PopReq(p)
    \/ Create(p) \/ Delete(p) \/ List(p)

\* A request in progress takes its next step.
Continue(p) ==
    \/ Push(p) \/ PopSelect(p) \/ PopDelete(p) \/ Get(p) \/ Count(p) \/ Return(p)

\* Requests are served concurrently: their steps interleave.
Racing == npushed + PushesInFlight < MaxRace

Next ==
    \/ \E p \in Procs : Arrive(p) \/ (Racing /\ PushReq(p)) \/ Continue(p)
    \/ Restart

Spec == Init /\ [][Next]_vars

\* Only pushes and creates arrive, concurrently.
PushNext == \E p \in Procs : PushReq(p) \/ Create(p) \/ Push(p) \/ Return(p)

PushSpec == Init /\ [][PushNext]_vars

\* Requests are served one at a time.
Alone(p) == \A o \in Procs \ {p} : calls[o].pc = "idle"

SeqNext ==
    \/ \E p \in Procs : (Alone(p) /\ (Arrive(p) \/ PushReq(p))) \/ Continue(p)
    \/ Restart

SeqSpec == Init /\ [][SeqNext]_vars

\* Pushes, pops, creates and deletes run concurrently, and the server may
\* stop and start again.
StoreNext ==
    \/ \E p \in Procs :
          \/ PopReq(p) \/ Create(p) \/ Delete(p)
          \/ Racing /\ PushReq(p)
          \/ Push(p) \/ PopSelect(p) \/ PopDelete(p) \/ Return(p)
    \/ Restart

StoreSpec == Init /\ [][StoreNext]_vars

\* Requests are served concurrently by a server that keeps running, and
\* every context that can take a step again and again does take one.
LiveNext ==
    \E p \in Procs :
        \/ Arrive(p) \/ Continue(p)
        \/ npushed + PushesInFlight < MaxLive /\ PushReq(p)

Fairness == \A p \in Procs : SF_vars(Continue(p))

LiveSpec == Init /\ [][LiveNext]_vars /\ Fairness

\* Pops and peeks with any query string, creates, deletes and at most
\* MaxRace pushes are served one at a time.
ArgNext ==
    \E p \in Procs :
        \/ Alone(p) /\ (MqPop(p) \/ MqGet(p) \/ Create(p) \/ Delete(p))
        \/ Alone(p) /\ Racing /\ PushReq(p)
        \/ Push(p) \/ PopSelect(p) \/ PopDelete(p) \/ Get(p) \/ Return(p)

ArgSpec == Init /\ [][ArgNext]_vars

\* ------------------------------------------------------------- properties

Done(p) == calls[p].pc = "done"
Ok(p) == Done(p) /\ calls[p].error = "none"

\* The errors of the requests that mq_push, mq_pop and mq_get refuse
\* before they call the DAO.
HandlerErrors ==
    {"Not a JSON value", "n must be an integer number", "n must be positive",
     "n must be at most 100"}

Min(a, b) == IF a < b THEN a ELSE b

\* The first k elements of s, all of s when it has fewer.
Prefix(s, k) == SubSeq(s, 1, Min(k, Len(s)))

\* The push numbers of a list of messages, in the order of the list.
SeqOf(msgs) == [i \in 1..Len(msgs) |-> msgs[i].seq]

\* Number of messages stored in queue q.
Size(ms, qs, q) == Cardinality({r \in ms : \E x \in qs : x.name = q /\ x.id = r.queue_id})

\* C1: at-most-once delivery.  No message (one push) is returned by pop to
\* more than one caller, whatever the interleaving of the pop calls.
C1_AtMostOnce == \A s \in DOMAIN delivered : delivered[s] <= 1

\* C2: FIFO order.  With requests served one after the other, the list
\* that pop(n) or peek(n) reads from a queue is the first n messages, in
\* push order, of those pushed to the queue and not yet popped; pushes,
\* pops and deletes on other queues in between change nothing of it.
C2_Fifo ==
    \A p \in Procs :
        (calls[p].pc = "delete" \/ (Ok(p) /\ calls[p].op = "get"))
        => SeqOf(calls[p].messages) = Prefix(fifo[calls[p].qname], calls[p].n)

\* A pop returned two messages of its queue, the first and the third
\* message pushed, while the second, pushed to another queue, stays.
C2_Witness ==
    \E p \in Procs :
        /\ Ok(p) /\ calls[p].op = "pop"
        /\ SeqOf(calls[p].messages) = <<1, 3>>
        /\ \E r \in messages : r.seq = 2

\* C3: id monotonicity, no reuse.  Each successful push returns an id
\* greater than the id the successful push before it returned, whatever
\* pops, deletions, re-creations and restarts came in between.
C3_IdsIncrease ==
    [][\A p \in Procs :
          (calls[p].pc = "act" /\ calls[p].op = "push" /\ Ok(p)')
              => calls'[p].message_id > lastid]_vars

\* C4: check-then-act against delete.  A push, pop, peek or count that
\* reached the store and whose queue did not exist when it acted (deleted
\* since its check_queue, if that passed) ends with the no-such-queue
\* error, never with a normal result.
C4_DeletedMidway ==
    \A p \in Procs :
        (/\ calls[p].pc \in {"delete", "done"}
         /\ calls[p].op \in {"push", "pop", "get", "count"}
         /\ calls[p].error \notin HandlerErrors
         /\ ~calls[p].existed)
        => calls[p].error = "No such queue"

\* C5: with requests served one after the other, a push, pop, peek or
\* count on a queue that does not exist (a request its handler passes on
\* to the store) ends at once with the no-such-queue error, carries no
\* result and leaves the database as it was.
C5_AbsentFails ==
    [][\A p \in Procs :
          (/\ calls[p].pc = "idle" /\ calls'[p].pc # "idle"
           /\ calls'[p].op \in {"push", "pop", "get", "count"}
           /\ calls'[p].error \notin HandlerErrors
           /\ ~QueueExists(queues, calls'[p].qname))
          => /\ calls'[p].pc = "done"
             /\ calls'[p].error = "No such queue"
             /\ calls'[p].messages = << >>
             /\ calls'[p].message_id = 0 /\ calls'[p].count = 0
             /\ db' = db]_vars

\* A pop on an absent queue has failed.
C5_Witness ==
    \E p \in Procs :
        /\ Done(p) /\ calls[p].op = "pop" /\ ~calls[p].existed
        /\ calls[p].error = "No such queue"

\* C6: concurrent pushes.  When only pushes (and creates) run, in any
\* interleaving, every push is stored, each under the id its caller got,
\* and no two pushes got the same id.
C6_DistinctIds ==
    /\ Cardinality(messages) = npushed
    /\ \A r \in messages : r.id = r.rid
    /\ \A r1, r2 \in messages : r1.seq # r2.seq => r1.rid # r2.rid
    /\ \A p \in Procs :
          (Ok(p) /\ calls[p].op = "push")
          => \E r \in messages : /\ r.id = calls[p].message_id
                                 /\ r.sent = calls[p].message
                                 /\ r.seq = npushed

\* A push has completed that arrived before the push before it completed:
\* the two ran concurrently.
C6_Witness ==
    \E p \in Procs :
        /\ Ok(p) /\ calls[p].op = "push"
        /\ npushed >= 2 /\ calls[p].since < npushed - 1

\* C7: bounded pop/peek.  With requests served one after the other, pop(n)
\* and peek(n) on a queue of m messages read min(n, m) messages without
\* error and change nothing by reading; pop then removes as many as it
\* read, so that the queue is empty when m < n.
C7_Bounded ==
    [][\A p \in Procs :
          LET c == calls[p]
              d == calls'[p]
              m == Size(messages, queues, c.qname)
          IN /\ (c.pc = "act" /\ c.op \in {"pop", "get"} /\ d.pc \in {"delete", "done"})
                => /\ Len(d.messages) = Min(c.n, m)
                   /\ d.error = "none"
                   /\ db' = db
             /\ (c.pc = "delete" /\ d.pc = "done")
                => /\ d.error = "none"
                   /\ Size(messages', queues', c.qname) = m - Len(c.messages)
                   /\ (m < c.n => Size(messages', queues', c.qname) = 0)]_vars

\* A pop(2) on a queue of one message returned one message and left the
\* queue empty.
C7_Witness ==
    \E p \in Procs :
        /\ Ok(p) /\ calls[p].op = "pop" /\ calls[p].n = 2
        /\ Len(calls[p].messages) = 1
        /\ Size(messages, queues, calls[p].qname) = 0

\* C8: idempotent create/delete.  A create of a queue that exists and a
\* delete of a queue that does not exist end without error and leave the
\* tables queues and messages as they were.
C8_Idempotent ==
    [][\A p \in Procs :
          LET d == calls'[p]
          IN (/\ calls[p].pc = "idle" /\ d.pc = "done"
              /\ \/ d.op = "create" /\ QueueExists(queues, d.qname)
                 \/ d.op = "delete" /\ ~QueueExists(queues, d.qname))
             => d.error = "none" /\ db' = db]_vars

\* A create of a queue that exists and holds a message has completed.
C8_Witness ==
    \E p \in Procs :
        /\ Ok(p) /\ calls[p].op = "create" /\ calls[p].existed
        /\ Size(messages, queues, calls[p].qname) > 0

\* C9: count tracks pushes and pops.  With requests served one after the
\* other, count returns the pushes to the queue minus the messages pop
\* returned from it since its creation; a successful push raises the
\* number stored by 1, a pop that returns k messages lowers it by k; after
\* delete the queue does not exist and count fails with no-such-queue.
C9_Count ==
    [][\A p \in Procs :
          LET c == calls[p]
              d == calls'[p]
              q == d.qname
          IN /\ (c.pc = "act" /\ c.op = "count" /\ d.pc = "done")
                => d.error = "none" /\ d.count = balance[q]
             /\ (c.pc = "act" /\ c.op = "push" /\ d.pc = "done" /\ d.error = "none")
                => Size(messages', queues', q) = Size(messages, queues, q) + 1
             /\ (c.pc = "delete" /\ d.pc = "done")
                => Size(messages', queues', q) = Size(messages, queues, q) - Len(d.messages)
             /\ (c.pc = "idle" /\ d.pc = "done" /\ d.op = "delete")
                => ~QueueExists(queues', q)
             /\ (c.pc = "idle" /\ d.pc # "idle" /\ d.op = "count" /\ ~QueueExists(queues, q))
                => d.pc = "done" /\ d.error = "No such queue"]_vars

\* The scenario of the spec: two pushes, then pop(1) returned the first
\* message pushed (id 1), and count returns 1.
C9_Witness ==
    \E p \in Procs :
        /\ Ok(p) /\ calls[p].op = "count" /\ calls[p].count = 1
        /\ npushed = 2 /\ delivered[1] = 1
        /\ fifo[calls[p].qname] = <<2>>
        /\ \E r \in messages : r.seq = 2 /\ r.id = 2

\* C10: push/delivery correlation.  Every stored message is stored under
\* the id its push returned, pop and peek deliver it under that id with
\* the payload given to that push, and nothing else is delivered under the
\* id of a message that is stored.
C10_Correlate ==
    /\ \A r \in messages : r.id = r.rid
    /\ \A p \in Procs :
          (calls[p].pc \in {"delete", "done"} /\ calls[p].op \in {"pop", "get"})
          => \A i \in 1..Len(calls[p].messages) :
                LET e == calls[p].messages[i]
                IN /\ e.id = e.rid
                   /\ e.message = e.sent
                   /\ Done(p) => \A r \in messages : r.id = e.id => r.sent = e.message

\* A pop delivered the second message pushed, an object, under id 1, the
\* id the first push had also returned.
C10_Witness ==
    \E p \in Procs :
        /\ Ok(p) /\ calls[p].op = "pop" /\ Len(calls[p].messages) = 1
        /\ calls[p].messages[1].seq = 2 /\ calls[p].messages[1].id = 1
        /\ calls[p].messages[1].message = JObj("item", "A")

\* A request arrives at context p and ends in the same step.
Served(p, op) ==
    calls[p].pc = "idle" /\ calls'[p].pc = "done" /\ calls'[p].op = op

\* C11: delete discards, re-create starts empty.  A delete leaves no queue
\* of the name; a create of a name that has no queue (never created, or
\* deleted, whatever the queue held and whatever was done to other queues
\* since) leaves a queue of that name that holds no message: count is 0
\* and pop and peek read nothing, so no message pushed before the delete.
C11_Recreate ==
    [][\A p \in Procs :
          LET q == calls'[p].qname
          IN /\ Served(p, "delete") => ~QueueExists(queues', q)
             /\ (Served(p, "create") /\ ~QueueExists(queues, q))
                => /\ QueueExists(queues', q)
                   /\ CountMessages(messages', queues', q) = 0
                   /\ GetMessages(messages', queues', q, MAX_MESSAGES_REQUEST_NUMBER) = << >>
                   /\ calls'[p].error = "none"]_vars

\* Queue "a" has been created again, under the id (2) it had before: the
\* second message pushed went to it and was discarded by its delete, while
\* the first message pushed is still in the other queue.
C11_Witness ==
    \E p \in Procs :
        /\ Ok(p) /\ calls[p].op = "create" /\ calls[p].qname = "a"
        /\ ~calls[p].existed
        /\ QueueIds(queues, "a") = {2} /\ QueueIds(queues, "default") = {1}
        /\ npushed = 2 /\ delivered[2] = 0
        /\ messages # {} /\ \A r \in messages : r.seq = 1 /\ r.queue_id = 1

\* C12: default queue at initialization.  The database of a first start
\* has a queue "default", and so has the database after every later start
\* of the process (init_db), whatever creates and deletes the earlier run
\* performed.
C12_DefaultAtInit ==
    /\ QueueExists(queues, "default")
    /\ [][Restart => QueueExists(queues', "default")]_vars

\* The names of the queues in table qs.
Names(qs) == {r.name : r \in qs}

\* The place of a name in the ascending order of the names.
NameIndex(name) == CHOOSE i \in 1..Len(NameOrder) : NameOrder[i] = name

\* C13: list.  The queues start as {"default"}; a create adds its name, a
\* delete removes its name, nothing else changes the names; and list
\* returns the names of the queues there are, each once, in ascending
\* order.
C13_List ==
    /\ Names(queues) = {"default"}
    /\ [][/\ \A p \in Procs :
               LET d == calls'[p]
               IN /\ Served(p, "create") => Names(queues') = Names(queues) \cup {d.qname}
                  /\ Served(p, "delete") => Names(queues') = Names(queues) \ {d.qname}
                  /\ Served(p, "list")
                     => /\ d.error = "none"
                        /\ {d.names[i] : i \in 1..Len(d.names)} = Names(queues)
                        /\ \A i, j \in 1..Len(d.names) :
                              i < j => NameIndex(d.names[i]) < NameIndex(d.names[j])
          /\ (\A p \in Procs : ~Served(p, "create") /\ ~Served(p, "delete"))
             => Names(queues') = Names(queues)]_vars

\* list returned both names, "a" first, while the row of "default" is the
\* older one (the smaller id).
C13_Witness ==
    \E p \in Procs :
        /\ Ok(p) /\ calls[p].op = "list" /\ calls[p].names = <<"a", "default">>
        /\ QueueIds(queues, "default") = {1} /\ QueueIds(queues, "a") = {2}

\* C14: error-to-status mapping for a missing queue.  The response to a
\* push, pop, peek or count that reached the store and found no queue of
\* its name has a client-error status (400..499), and its body is an
\* object with the one field "error".
C14_ClientError ==
    \A p \in Procs :
        (/\ Done(p) /\ calls[p].op \in {"push", "pop", "get", "count"}
         /\ calls[p].error \notin HandlerErrors
         /\ ~calls[p].existed)
        => /\ StatusCode(calls[p]) \in 400..499
           /\ DOMAIN ErrorBody(calls[p]) = {"error"}

\* k zeros.
Zeros(k) == [i \in 1..k |-> "0"]

\* The text is a non-negative integer that is at most the maximum: the
\* decimal text of a number of 0..MAX_MESSAGES_REQUEST_NUMBER, with or
\* without zeros in front.
InRangeTexts ==
    {Zeros(z) \o Decimal(k) : k \in 0..MAX_MESSAGES_REQUEST_NUMBER, z \in 0..1}

\* The request of context p was refused on arrival, before the store.
Rejected(p) ==
    /\ calls'[p].pc = "done"
    /\ calls'[p].error \in HandlerErrors
    /\ calls'[p].messages = << >>
    /\ db' = db

\* C15: count-parameter validation precedes the store.  A pop or peek
\* request whose n is given and is not a non-negative integer of at most
\* 100 ends on arrival with an error of the handler, before check_queue or
\* any statement runs: it returns no message and leaves the database as it
\* was.  n = 100 passes the checks and reaches the store as 100; n = 101 is
\* rejected.
C15_Validation ==
    [][\A p \in Procs :
          LET op == calls'[p].op
              q == calls'[p].qname
          IN (calls[p].pc = "idle" /\ calls'[p].pc # "idle" /\ op \in {"pop", "get"})
             => \A args \in QueryArgs :
                   MqRead(p, op, q, args)
                   => /\ (args # << >> /\ args[1] \notin InRangeTexts) => Rejected(p)
                      /\ args = <<Decimal(MAX_MESSAGES_REQUEST_NUMBER + 1)>> => Rejected(p)
                      /\ args = <<Decimal(MAX_MESSAGES_REQUEST_NUMBER)>>
                         => /\ calls'[p].error \notin HandlerErrors
                            /\ QueueExists(queues, q)
                               => /\ calls'[p].pc = "act"
                                  /\ calls'[p].n = MAX_MESSAGES_REQUEST_NUMBER]_vars

\* A pop with n = 101 on a queue that holds a message was rejected, and
\* the message is still stored.
C15_Witness ==
    \E p \in Procs :
        /\ Done(p) /\ calls[p].op = "pop"
        /\ calls[p].error = "n must be at most 100"
        /\ calls[p].messages = << >>
        /\ Size(messages, queues, calls[p].qname) = 1

\* C16: no orphaned messages.  Under any interleaving of the steps of
\* push, pop, create and delete, restarts of the server included, every
\* stored message has the queue_id of a queue that exists (a push whose
\* queue was deleted after its check_queue stores nothing); and a delete
\* is one step: after it neither the queue nor a message of it is left.
C16_NoOrphans ==
    /\ [](\A r \in messages : \E x \in queues : x.id = r.queue_id)
    /\ [][\A p \in Procs :
             Served(p, "delete")
             => LET q == calls'[p].qname
                IN /\ ~QueueExists(queues', q)
                   /\ \A r \in messages' : r.queue_id \notin QueueIds(queues, q)]_vars

\* A push passed check_queue, its queue was then deleted with the message
\* it held, and the push has ended, on the constraint of queue_id, storing
\* nothing.
C16_Witness ==
    \E p \in Procs :
        /\ Done(p) /\ calls[p].op = "push" /\ calls[p].error = "IntegrityError"
        /\ ~QueueExists(queues, calls[p].qname)
        /\ npushed = 1 /\ delivered[1] = 0 /\ messages = {}

\* The {"id", "message"} objects of a list of messages.
Objects(msgs) == [i \in 1..Len(msgs) |-> [id |-> msgs[i].id, message |-> msgs[i].message]]

\* C17: peek is pop without removal.  With requests served one after the
\* other, peek(n) on an existing queue returns the list of {id, message}
\* that pop(n) reads in the state peek leaves behind, and the steps of
\* peek, count and list, and check_queue, leave the tables as they were.
C17_Peek ==
    [][\A p \in Procs :
          LET c == calls[p]
              d == calls'[p]
          IN /\ (c.pc = "act" /\ c.op = "get" /\ d.pc = "done")
                => /\ d.error = "none"
                   /\ Objects(d.messages)
                      = Objects(Rows2Messages(
                            GetMessages(messages', queues', c.qname, c.n)))
             /\ (c.pc = "act" /\ c.op \in {"get", "count"} /\ d.pc = "done") => db' = db
             /\ Served(p, "list") => db' = db
             /\ (/\ c.pc = "idle" /\ d.pc # "idle"
                 /\ d.op \in {"push", "pop", "get", "count"})
                => db' = db]_vars

\* A peek(2) on a queue of two messages returned both, and both are still
\* stored.
C17_Witness ==
    \E p \in Procs :
        /\ Ok(p) /\ calls[p].op = "get" /\ calls[p].n = 2
        /\ Len(calls[p].messages) = 2
        /\ Size(messages, queues, calls[p].qname) = 2

\* C18: no operation blocks.  With the contexts scheduled fairly, every
\* request that has started ends with a response, whatever the other
\* requests do; and a pop or peek that reads an existing queue holding no
\* message ends its read with an empty list and no error.
C18_NoBlock ==
    /\ \A p \in Procs : InFlight(p) ~> Done(p)
    /\ [][\A p \in Procs :
             LET c == calls[p]
                 d == calls'[p]
             IN (/\ c.pc = "act" /\ c.op \in {"pop", "get"} /\ d # c
                 /\ QueueExists(queues, c.qname)
                 /\ Size(messages, queues, c.qname) = 0)
                => /\ d.pc \in {"delete", "done"}
                   /\ d.messages = << >>
                   /\ d.error = "none"]_vars

\* A pop(1) of an existing queue that holds no message has returned an
\* empty list, while the other context is in the middle of a request.
C18_Witness ==
    \E p \in Procs :
        /\ Ok(p) /\ calls[p].op = "pop" /\ calls[p].n = 1 /\ calls[p].existed
        /\ calls[p].messages = << >>
        /\ npushed = 0
        /\ \E o \in Procs \ {p} : InFlight(o)

\* The queue a step of context p acts on.
Target(p) == IF calls[p].pc = "idle" THEN calls'[p].qname ELSE calls[p].qname

\* C19: queue independence.  A step of a push, pop, create or delete on
\* one queue leaves the existence of every other queue and its messages
\* (ids, payloads, order) as they were, under any interleaving.
C19_Independent ==
    [][\A p \in Procs :
          (calls'[p] # calls[p])
          => \A b \in QNames \ {Target(p)} :
                /\ QueueExists(queues', b) = QueueExists(queues, b)
                /\ OrderById(QueueRows(messages', queues', b))
                   = OrderById(QueueRows(messages, queues, b))]_vars

\* C20: ids unique among stored messages.  Under any interleaving no two
\* rows stored at the same time, of one queue or of two, have the same
\* id, and the id a push gives its message is greater than the id of
\* every message stored when it inserts.
C20_UniqueIds ==
    /\ [](\A r1, r2 \in messages : r1.id = r2.id => r1 = r2)
    /\ [][\A p \in Procs :
             (calls[p].pc = "act" /\ calls[p].op = "push" /\ Ok(p)')
             => /\ \A r \in messages : calls'[p].message_id > r.id
                /\ \E r \in messages' \ messages : r.id = calls'[p].message_id]_vars

\* Two messages are stored, in different queues, under the ids 1 and 2;
\* the push of the second arrived before the first was stored.
C20_Witness ==
    \E p \in Procs :
        /\ Ok(p) /\ calls[p].op = "push" /\ calls[p].message_id = 2
        /\ npushed = 2 /\ calls[p].since = 0
        /\ \E r1, r2 \in messages :
              /\ r1.id = 1 /\ r2.id = 2 /\ r1.seq = 1 /\ r2.seq = 2
              /\ r1.queue_id # r2.queue_id

====
